---- MODULE Spec2Model ----
(***************************************************************************)
(* Model of Noven99/webCrawlAndProcess.                                    *)
(*                                                                         *)
(*   translateAndSummaryManyWord.py  the Annotator: for every .docx file   *)
(*       given on the command line, select the long paragraphs, summarize  *)
(*       them in batches, translate, append runs, save <stem>_zh.docx.     *)
(*   WebCrawlingWithManyURL.py       the Fetcher: for every URL, fetch,    *)
(*       parse and save one Word document.                                 *)
(*                                                                         *)
(* Strings are modelled by what the program observes of them.  A sentence  *)
(* is a record of the counts the two tokenizers report for it; a text is   *)
(* its optional surrounding whitespace, its sentences and the "..." marker.*)
(* The translation backend, the summarization backend, the file system and *)
(* the network are the environment: each call has the outcomes the library *)
(* can produce (a value, an empty value, an exception).                    *)
(***************************************************************************)
EXTENDS Integers, Sequences, FiniteSets, TLC

VARIABLES
    files,      \* args.files: the command line of the Annotator
    fpos,       \* position of the main loop in args.files (1-based)
    pc,         \* where the Annotator is: main, summarize, merge, done, crashed
    orig,       \* the paragraph texts of the document as loaded by Document(path)
    doc,        \* doc.paragraphs of the document being processed
    cands,      \* the Candidate list of process_docx
    start,      \* loop variable of batch_summarize
    mi,         \* loop variable of the merge loop of process_docx
    calls,      \* the calls of SUMMARIZER so far: the file and the chunk
    outputs,    \* the file system: input position |-> saved <stem>_zh.docx
    console,    \* what was printed, in order
    faults,     \* the backend calls that did not return a text, in order
    urls,       \* args.urls: the command line of the Fetcher
    upos,       \* position of the Fetcher's loop in args.urls (1-based)
    fpc,        \* where the Fetcher is: loop, parse, save, done
    html,       \* the page fetched for the current URL
    art,        \* the article parsed from it
    attempts,   \* the URLs handed to requests.get, in order
    written,    \* the documents saved by save_to_word, in order
    errs        \* the URLs reported on stderr, in order

annVars == <<files, fpos, pc, orig, doc, cands, start, mi, calls, outputs, console, faults>>
fetchVars == <<urls, upos, fpc, html, art, attempts, written, errs>>
vars == <<files, fpos, pc, orig, doc, cands, start, mi, calls, outputs, console, faults,
          urls, upos, fpc, html, art, attempts, written, errs>>

(***************************************************************************)
(* Program constants.                                                      *)
(***************************************************************************)
MIN_WORDS == 40
MAX_INPUT_TOKENS == 1024
BATCH_SIZE == 4

(***************************************************************************)
(* Bounds of the model.                                                    *)
(***************************************************************************)
MaxFiles == 3       \* files on the Annotator's command line
MaxParas == 3       \* paragraphs per document, one-file runs
MaxCands == 9       \* paragraphs per document, batching runs
MaxSents == 3       \* sentences per paragraph, truncation runs
MaxFaults == 2      \* backend faults injected per run, one-file runs
MaxFaultsCli == 1   \* backend faults injected per run, many-file runs
MaxUrls == 3        \* URLs on the Fetcher's command line

(***************************************************************************)
(* Texts.                                                                  *)
(***************************************************************************)
\* A sentence, as sent_tokenize returns it:
\*   alpha  word_tokenize tokens for which isalpha() holds
\*   other  the remaining word_tokenize tokens (numbers, punctuation)
\*   tok    len(TOKENIZER.tokenize(s)): the sentence tokenized on its own,
\*          as the loop of truncate_text_by_sentences counts it
\*   tokIn  its tokens inside a longer text, after one space, as
\*          Candidate.__init__ counts them in the whole paragraph: the BART
\*          tokenizer is a byte-level BPE that makes the preceding space
\*          part of the first word, so that word is encoded differently
\*          at the start of a text and after a space
\*   gap    whitespace characters before it in the paragraph (1 = one space)
Sent(a, o, t, ti, g) == [alpha |-> a, other |-> o, tok |-> t, tokIn |-> ti, gap |-> g]

\* A Python str holding English text.
Text(p, ss, m) == [k |-> "text", pad |-> p, sents |-> ss, marker |-> m]

\* The empty str.
Empty == [k |-> "empty"]

\* not s  /  not s.strip()
IsEmpty(s) == s.k = "empty" \/ (s.k = "text" /\ ~s.pad /\ s.sents = <<>>)
IsBlank(s) ==
    \/ s.k = "empty"
    \/ s.k = "text" /\ s.sents = <<>>
    \/ s.k = "sum" /\ s.blank

\* str.strip()
Strip(s) ==
    IF IsBlank(s) THEN Empty
    ELSE IF s.k = "text" THEN [s EXCEPT !.pad = FALSE]
    ELSE s

\* sent_tokenize(text)
sent_tokenize(s) == IF s.k = "text" THEN s.sents ELSE <<>>

RECURSIVE SumAlpha(_, _)
SumAlpha(ss, n) == IF n = 0 THEN 0 ELSE ss[n].alpha + SumAlpha(ss, n - 1)

RECURSIVE SumWords(_, _)
SumWords(ss, n) == IF n = 0 THEN 0 ELSE ss[n].alpha + ss[n].other + SumWords(ss, n - 1)

\* len([w for w in word_tokenize(txt) if w.isalpha()])
AlphaWordCount(txt) == SumAlpha(sent_tokenize(txt), Len(sent_tokenize(txt)))

RECURSIVE SumTokIn(_, _)
SumTokIn(ss, n) ==
    IF n = 0 THEN 0
    ELSE IF n = 1 THEN ss[1].tok
    ELSE ss[n].tokIn + (ss[n].gap - 1) + SumTokIn(ss, n - 1)

\* len(TOKENIZER.tokenize(text)) for a stripped text: the first sentence as on
\* its own, every later one as it is encoded after whitespace, extra
\* whitespace one token each, the "..." marker one token.
TokenCount(text) ==
    IF text.k # "text" THEN 0
    ELSE SumTokIn(text.sents, Len(text.sents)) + (IF text.marker THEN 1 ELSE 0)

\* " ".join(kept)
Join(kept) ==
    Text(FALSE, [i \in 1..Len(kept) |-> [kept[i] EXCEPT !.gap = 1]], FALSE)

\* s + "..."
WithMarker(s) == [s EXCEPT !.marker = TRUE]

(***************************************************************************)
(* truncate_text_by_sentences, Candidate, collect_candidates.              *)
(***************************************************************************)
OverBudgetOffByOne(cur, tl, max_tokens) == cur + tl >= max_tokens

\* The test that ends the loop of truncate_text_by_sentences.
OverBudget(cur, tl, max_tokens) == cur + tl > max_tokens

\* The loop of truncate_text_by_sentences from sentence i on with running
\* count cur: the number of sentences in kept when the loop ends.
RECURSIVE KeptFrom(_, _, _, _)
KeptFrom(sents, i, cur, max_tokens) ==
    IF i > Len(sents) THEN Len(sents)
    ELSE IF OverBudget(cur, sents[i].tok, max_tokens) THEN i - 1
    ELSE KeptFrom(sents, i + 1, cur + sents[i].tok, max_tokens)

truncate_text_by_sentences(text, max_tokens) ==
    LET sents == sent_tokenize(text)
        n == KeptFrom(sents, 1, 0, max_tokens)
    IN  IF n > 0 THEN WithMarker(Join(SubSeq(sents, 1, n))) ELSE text

\* Candidate.__init__
Candidate(para_idx, text) ==
    [idx |-> para_idx,
     truncated |-> IF TokenCount(text) > MAX_INPUT_TOKENS
                   THEN truncate_text_by_sentences(text, MAX_INPUT_TOKENS)
                   ELSE text,
     summary_zh |-> Empty]

NeedsSummaryAllTokens(txt) ==
    SumWords(sent_tokenize(txt), Len(sent_tokenize(txt))) > MIN_WORDS

\* The test of collect_candidates on a stripped, non-empty paragraph text.
NeedsSummary(txt) == AlphaWordCount(txt) > MIN_WORDS

\* collect_candidates from paragraph i (0-based) on.
RECURSIVE CollectFrom(_, _)
CollectFrom(paragraphs, i) ==
    IF i >= Len(paragraphs) THEN <<>>
    ELSE LET txt == Strip(paragraphs[i + 1].text)
         IN  IF IsEmpty(txt) THEN CollectFrom(paragraphs, i + 1)
             ELSE IF NeedsSummary(txt)
                  THEN <<Candidate(i, txt)>> \o CollectFrom(paragraphs, i + 1)
                  ELSE CollectFrom(paragraphs, i + 1)

collect_candidates(paragraphs) == CollectFrom(paragraphs, 0)

(***************************************************************************)
(* The backends.                                                           *)
(***************************************************************************)
\* What one call of _trans.translate can do: return the translation, raise,
\* or return an empty value (process_docx tests "if zh:" for that).
TransOutcomes == {"ok", "raise", "empty"}

\* The translation of s, as the backend returns it.
Zh(s) == [k |-> "zh", of |-> s]

OnTranslateErrorEmpty(text) == Empty

\* The handler of translate_en2zh: what is returned when the backend raises.
OnTranslateError(text) == text

\* translate_en2zh(text), the backend call ending in outcome oc.
translate_en2zh(text, oc) ==
    IF IsBlank(text) THEN Empty
    ELSE IF oc = "raise" THEN OnTranslateError(text)
    ELSE IF oc = "ok" THEN Zh(text)
    ELSE Empty

\* out["summary_text"] for the text at position pos of backend call number
\* call; blank when the generated text is only whitespace.
Summary(text, call, pos, blank) ==
    [k |-> "sum", of |-> text, call |-> call, pos |-> pos, blank |-> blank]

Min(a, b) == IF a < b THEN a ELSE b

\* seq[start:start + BATCH_SIZE]
Slice(seq, from) == SubSeq(seq, from + 1, Min(from + BATCH_SIZE, Len(seq)))

ZipPosNoOffset(from, i, n) == IF i <= n THEN i ELSE 0

\* zip(cands[start:start + BATCH_SIZE], outs): the position in outs of the
\* output paired with candidate number i (1-based), 0 when it has none.
ZipPos(from, i, n) == IF from < i /\ i <= from + n THEN i - from ELSE 0

\* A backend call that did not return a text: where (the summary of candidate
\* number n, the paragraph with index n), and how (a blank summary, the
\* translator raising, the translator returning an empty value).
Fault(site, file, n, kind) == [site |-> site, file |-> file, n |-> n, kind |-> kind]

\* The faults of one batch, in the order of the calls.
BatchFaults(file, from, blanks, trs) ==
    LET all == [j \in DOMAIN blanks |->
                  Fault("summary", file, from + j,
                        IF blanks[j] THEN "blank" ELSE trs[j])]
        IsFault(f) == f.kind # "ok"
    IN  SelectSeq(all, IsFault)

(***************************************************************************)
(* The Annotator.                                                          *)
(***************************************************************************)
\* A path on the command line: does it exist, is its suffix .docx.
FileArgs == [exists : BOOLEAN, docx : BOOLEAN]
ValidArg == [exists |-> TRUE, docx |-> TRUE]
NoFile == [k |-> "nofile"]

\* A saved Word file.
Docx(paragraphs) == [k |-> "docx", paragraphs |-> paragraphs]

SeqsUpTo(S, n) == UNION {[1..k -> S] : k \in 0..n}

\* nargs="+": one argument at least.
ArgLists(S, n) == UNION {[1..k -> S] : k \in 1..n}

\* A run added by para.add_run and formatted by set_yahei.
TranslationRun(zh) == [label |-> "tr", text |-> zh, font |-> "Microsoft YaHei", bold |-> FALSE]
SummaryRun(sm) == [label |-> "sm", text |-> sm, font |-> "Microsoft YaHei", bold |-> TRUE]

\* idx2summary = {c.idx: c.summary_zh for c in cands}
InIdx2Summary(cs, i) == \E j \in 1..Len(cs) : cs[j].idx = i
Idx2Summary(cs, i) ==
    LET j == CHOOSE j \in 1..Len(cs) :
                 cs[j].idx = i /\ \A j2 \in (j + 1)..Len(cs) : cs[j2].idx # i
    IN  cs[j].summary_zh

Say(line) == console' = Append(console, line)

Break ==
    /\ fpos' = fpos
    /\ pc' = "done"

\* The state of the main loop after the file at fpos is given up by "continue".
Continue ==
    /\ fpos' = fpos + 1
    /\ pc' = "main"

\* for f in args.files: if not file_in.exists(): print; continue
SkipMissing ==
    /\ pc = "main" /\ fpos <= Len(files)
    /\ ~files[fpos].exists
    /\ Say([msg |-> "missing", file |-> fpos])
    /\ Continue
    /\ UNCHANGED <<files, orig, doc, cands, start, mi, calls, outputs, faults>>
    /\ UNCHANGED fetchVars

\* if file_in.suffix.lower() != ".docx": print; continue
SkipNotDocx ==
    /\ pc = "main" /\ fpos <= Len(files)
    /\ files[fpos].exists /\ ~files[fpos].docx
    /\ Say([msg |-> "ignored", file |-> fpos])
    /\ Continue
    /\ UNCHANGED <<files, orig, doc, cands, start, mi, calls, outputs, faults>>
    /\ UNCHANGED fetchVars

\* process_docx(file_in) up to the first backend call: load the document
\* (one of docs, whatever the file holds), collect the candidates, enter
\* batch_summarize, which returns at once when there is no candidate.
Begin(docs) ==
    /\ pc = "main" /\ fpos <= Len(files)
    /\ files[fpos].exists /\ files[fpos].docx
    /\ \E d \in docs :
          LET loaded == [i \in 1..Len(d) |-> [text |-> d[i], runs |-> <<>>]]
              cs == collect_candidates(loaded)
          IN  /\ orig' = d
              /\ doc' = loaded
              /\ cands' = cs
              /\ Say([msg |-> "count", file |-> fpos, n |-> Len(cs)])
              /\ pc' = IF cs = <<>> THEN "merge" ELSE "summarize"
    /\ start' = 0
    /\ mi' = 0
    /\ UNCHANGED <<files, fpos, calls, outputs, faults>>
    /\ UNCHANGED fetchVars

\* One iteration of the loop of batch_summarize: SUMMARIZER returns one
\* summary per text of the chunk and each is translated and written back.
SummarizeBatch(maxFaults) ==
    /\ pc = "summarize"
    /\ LET texts == [i \in 1..Len(cands) |-> cands[i].truncated]
           chunk == Slice(texts, start)
           n == Len(chunk)
       IN  \E blanks \in [1..n -> BOOLEAN], trs \in [1..n -> TransOutcomes] :
              /\ \A j \in 1..n : blanks[j] => trs[j] = "ok"
              /\ Len(faults) + Len(BatchFaults(fpos, start, blanks, trs)) <= maxFaults
              /\ faults' = faults \o BatchFaults(fpos, start, blanks, trs)
              /\ calls' = Append(calls, [file |-> fpos, chunk |-> chunk])
              /\ LET outs == [j \in 1..n |->
                                Summary(chunk[j], Len(calls) + 1, j, blanks[j])]
                 IN  cands' = [i \in 1..Len(cands) |->
                        LET j == ZipPos(start, i, n)
                        IN  IF j = 0 THEN cands[i]
                            ELSE [cands[i] EXCEPT !.summary_zh =
                                     translate_en2zh(Strip(outs[j]), trs[j])]]
    /\ start' = start + BATCH_SIZE
    /\ pc' = IF start + BATCH_SIZE >= Len(cands) THEN "merge" ELSE "summarize"
    /\ UNCHANGED <<files, fpos, orig, doc, mi, outputs, console>>
    /\ UNCHANGED fetchVars

CaughtPerFile ==
    /\ fpos' = fpos + 1
    /\ pc' = "main"

\* What an exception leaving SUMMARIZER does to the program: nothing catches
\* it in batch_summarize, process_docx or the main loop, so the interpreter
\* prints the traceback and exits.
Uncaught ==
    /\ pc' = "crashed"
    /\ fpos' = fpos

\* SUMMARIZER raises.
SummarizeRaise ==
    /\ pc = "summarize"
    /\ calls' = Append(calls, [file |-> fpos, chunk |->
                            Slice([i \in 1..Len(cands) |-> cands[i].truncated], start)])
    /\ Say([msg |-> "traceback", file |-> fpos])
    /\ Uncaught
    /\ UNCHANGED <<files, orig, doc, cands, start, mi, outputs, faults>>
    /\ UNCHANGED fetchVars

NewRunsNoEmptyCheck(cs, i, txt, oc) ==
    LET zh == translate_en2zh(txt, oc)
        tr == IF ~IsEmpty(zh) THEN <<TranslationRun(zh)>> ELSE <<>>
        sm == IF InIdx2Summary(cs, i)
              THEN <<SummaryRun(Idx2Summary(cs, i))>> ELSE <<>>
    IN  tr \o sm

\* The runs one iteration of the merge loop adds to paragraph i (0-based)
\* whose stripped text is txt, the translation call ending in oc.
NewRuns(cs, i, txt, oc) ==
    LET zh == translate_en2zh(txt, oc)
        tr == IF ~IsEmpty(zh) THEN <<TranslationRun(zh)>> ELSE <<>>
        sm == IF InIdx2Summary(cs, i) /\ ~IsEmpty(Idx2Summary(cs, i))
              THEN <<SummaryRun(Idx2Summary(cs, i))>> ELSE <<>>
    IN  tr \o sm

AddRunsOverwrite(para, runs) ==
    IF runs = <<>> THEN para ELSE [text |-> runs[Len(runs)].text, runs |-> <<>>]

\* para.add_run, as many times as there are runs to add.
AddRuns(para, runs) == [para EXCEPT !.runs = para.runs \o runs]

\* One iteration of the merge loop of process_docx.
MergePara(maxFaults) ==
    /\ pc = "merge" /\ mi < Len(doc)
    /\ LET para == doc[mi + 1]
           txt == Strip(para.text)
       IN  IF IsEmpty(txt)
           THEN UNCHANGED <<doc, faults>>
           ELSE \E oc \in TransOutcomes :
                   /\ oc # "ok" => Len(faults) < maxFaults
                   /\ faults' = IF oc = "ok" THEN faults
                                ELSE Append(faults, Fault("para", fpos, mi, oc))
                   /\ doc' = [doc EXCEPT ![mi + 1] = AddRuns(para, NewRuns(cands, mi, txt, oc))]
    /\ Say([msg |-> "para", file |-> fpos, n |-> mi + 1, total |-> Len(doc)])
    /\ mi' = mi + 1
    /\ UNCHANGED <<files, fpos, pc, orig, cands, start, calls, outputs>>
    /\ UNCHANGED fetchVars

\* doc.save(out), the end of process_docx and of the iteration of the main loop.
Save ==
    /\ pc = "merge" /\ mi = Len(doc)
    /\ outputs' = [outputs EXCEPT ![fpos] = Docx(doc)]
    /\ Say([msg |-> "saved", file |-> fpos])
    /\ Continue
    /\ UNCHANGED <<files, orig, doc, cands, start, mi, calls, faults>>
    /\ UNCHANGED fetchVars

\* The main loop has run out of files.
Exit ==
    /\ pc = "main" /\ fpos > Len(files)
    /\ pc' = "done"
    /\ UNCHANGED <<files, fpos, orig, doc, cands, start, mi, calls, outputs, console, faults>>
    /\ UNCHANGED fetchVars

FetchIdle ==
    /\ urls = <<>> /\ upos = 1 /\ fpc = "done" /\ html = NoFile /\ art = NoFile
    /\ attempts = <<>> /\ written = <<>> /\ errs = <<>>

InitAnnotator(fileSeqs) ==
    /\ files \in fileSeqs
    /\ fpos = 1
    /\ pc = "main"
    /\ orig = <<>> /\ doc = <<>> /\ cands = <<>>
    /\ start = 0 /\ mi = 0
    /\ calls = <<>>
    /\ outputs = [i \in 1..Len(files) |-> NoFile]
    /\ console = <<>>
    /\ faults = <<>>
    /\ FetchIdle

NextAnnotator(docs, maxFaults) ==
    \/ SkipMissing
    \/ SkipNotDocx
    \/ Begin(docs)
    \/ SummarizeBatch(maxFaults)
    \/ SummarizeRaise
    \/ MergePara(maxFaults)
    \/ Save
    \/ Exit

(***************************************************************************)
(* The documents of the runs.                                              *)
(***************************************************************************)
\* "This is short."
Short == Sent(3, 1, 4, 4, 1)
\* 37 and 38 words and three commas or numbers, a full stop
Words37 == Sent(37, 4, 45, 45, 1)
Words38 == Sent(38, 4, 46, 46, 1)
\* 41 words, 100 tokens
Words41 == Sent(41, 1, 100, 100, 1)
\* 41 numbers, no word
Numbers41 == Sent(0, 42, 60, 60, 1)

EmptyPara == Text(FALSE, <<>>, FALSE)
SpacePara == Text(TRUE, <<>>, FALSE)
ShortPara == Text(FALSE, <<Short>>, FALSE)
Para40 == Text(TRUE, <<Short, Words37>>, FALSE)
Para41 == Text(FALSE, <<Short, Words38>>, FALSE)
LongPara == Text(TRUE, <<Words41>>, FALSE)
NumberPara == Text(FALSE, <<Words37, Numbers41>>, FALSE)

ParasDoc == {EmptyPara, SpacePara, ShortPara, Para40, Para41, NumberPara}

\* Sentences of about half the token budget, of all of it, and of more.  The
\* first word of HalfMore takes one token more after a space than at the
\* start of a text, that of HalfLess one token less.
Half == Sent(400, 40, 512, 512, 1)
HalfMore == Sent(400, 40, 512, 513, 1)
HalfLess == Sent(390, 40, 500, 499, 1)
Full == Sent(800, 80, 1024, 1024, 1)
Over == Sent(801, 80, 1025, 1025, 1)
\* "This is short." after a line break
ShortBreak == Sent(3, 1, 4, 4, 2)

SentsBig == {Short, ShortBreak, Words41, Half, HalfMore, HalfLess, Full, Over}

\* Many files, small documents.
Init == InitAnnotator(ArgLists(FileArgs, MaxFiles))
DocsCli == {<<>>, <<ShortPara>>, <<SpacePara, LongPara>>}
Next == NextAnnotator(DocsCli, MaxFaultsCli)
Spec == Init /\ [][Next]_vars

\* One file, every kind of paragraph.
InitOne == InitAnnotator(ArgLists(FileArgs, 1))
NextDoc == NextAnnotator(SeqsUpTo(ParasDoc, MaxParas), MaxFaults)
SpecDoc == InitOne /\ [][NextDoc]_vars

\* One file, documents of long paragraphs, every other one the same: several
\* batches.
DocsBatch == {[i \in 1..n |-> IF i % 2 = 1 THEN LongPara ELSE Para41] : n \in 0..MaxCands}
NextBatch == NextAnnotator(DocsBatch, MaxFaults)
SpecBatch == InitOne /\ [][NextBatch]_vars

\* One file, one paragraph of up to MaxSents sentences: truncation.
DocsCand == {<<Text(FALSE, ss, FALSE)>> : ss \in ArgLists(SentsBig, MaxSents)}
NextCand == NextAnnotator(DocsCand, MaxFaults)
SpecCand == InitOne /\ [][NextCand]_vars

(***************************************************************************)
(* The Fetcher.                                                            *)
(***************************************************************************)
\* What parse_article looks at in a page: the text of the h1 tag, the
\* datetime attribute of the time tag, a date in the page's text, and the
\* texts of the p tags of the article container ("" where there is none).
Pages == [h1 : {"", "Title"}, time : {"", "2024-01-02T10:00"},
          textdate : {"", "2 January 2024"}, body : {<<>>, <<"p1">>}]

\* time_tag["datetime"][:10]
First10(d) == IF d = "2024-01-02T10:00" THEN "2024-01-02" ELSE d

\* parse_article(html)
parse_article(page) ==
    [title |-> IF page.h1 # "" THEN page.h1 ELSE "Untitled",
     date |-> IF page.time # "" THEN First10(page.time) ELSE page.textdate,
     paragraphs |-> page.body]

\* sanitize_filename(f"{art['date'] or 'undated'}-{art['title']}.docx"): the
\* date with its spaces replaced, the title.
FileName(a) ==
    <<IF a.date = "" THEN "undated"
      ELSE IF a.date = "2 January 2024" THEN "2_January_2024" ELSE a.date,
      a.title>>

OnUrlErrorAbort(stage) ==
    /\ errs' = Append(errs, [url |-> upos, stage |-> stage])
    /\ upos' = upos
    /\ fpc' = "done"

\* except Exception as e: print(..., file=sys.stderr); the loop goes on.
OnUrlError(stage) ==
    /\ errs' = Append(errs, [url |-> upos, stage |-> stage])
    /\ upos' = upos + 1
    /\ fpc' = "loop"

\* html = fetch_page(url)
Fetch ==
    /\ fpc = "loop" /\ upos <= Len(urls)
    /\ attempts' = Append(attempts, upos)
    /\ \E page \in Pages : html' = page
    /\ fpc' = "parse"
    /\ UNCHANGED <<urls, upos, art, written, errs>>
    /\ UNCHANGED annVars

\* fetch_page raises: the request fails or raise_for_status does.
FetchRaise ==
    /\ fpc = "loop" /\ upos <= Len(urls)
    /\ attempts' = Append(attempts, upos)
    /\ OnUrlError("fetch")
    /\ UNCHANGED <<urls, html, art, written>>
    /\ UNCHANGED annVars

\* art = parse_article(html)
Parse ==
    /\ fpc = "parse"
    /\ art' = parse_article(html)
    /\ fpc' = "save"
    /\ UNCHANGED <<urls, upos, html, attempts, written, errs>>
    /\ UNCHANGED annVars

\* parse_article raises (BeautifulSoup finds no lxml parser).
ParseRaise ==
    /\ fpc = "parse"
    /\ OnUrlError("parse")
    /\ UNCHANGED <<urls, html, art, attempts, written>>
    /\ UNCHANGED annVars

\* save_to_word(art, out_dir / fname)
SaveWord ==
    /\ fpc = "save"
    /\ written' = Append(written, [url |-> upos, name |-> FileName(art), article |-> art])
    /\ upos' = upos + 1
    /\ fpc' = "loop"
    /\ UNCHANGED <<urls, html, art, attempts, errs>>
    /\ UNCHANGED annVars

\* save_to_word raises (mkdir or doc.save fails).
SaveRaise ==
    /\ fpc = "save"
    /\ OnUrlError("save")
    /\ UNCHANGED <<urls, html, art, attempts, written>>
    /\ UNCHANGED annVars

\* The loop of main has run out of URLs.
FetchExit ==
    /\ fpc = "loop" /\ upos > Len(urls)
    /\ fpc' = "done"
    /\ UNCHANGED <<urls, upos, html, art, attempts, written, errs>>
    /\ UNCHANGED annVars

AnnotatorIdle ==
    /\ files = <<>> /\ fpos = 1 /\ pc = "done"
    /\ orig = <<>> /\ doc = <<>> /\ cands = <<>>
    /\ start = 0 /\ mi = 0 /\ calls = <<>>
    /\ outputs = <<>> /\ console = <<>> /\ faults = <<>>

InitFetch ==
    /\ urls \in ArgLists({"url"}, MaxUrls)
    /\ upos = 1
    /\ fpc = "loop"
    /\ html = NoFile /\ art = NoFile
    /\ attempts = <<>> /\ written = <<>> /\ errs = <<>>
    /\ AnnotatorIdle

NextFetch ==
    \/ Fetch
    \/ FetchRaise
    \/ Parse
    \/ ParseRaise
    \/ SaveWord
    \/ SaveRaise
    \/ FetchExit

SpecFetch == InitFetch /\ [][NextFetch]_vars

(***************************************************************************)
(* Properties.                                                             *)
(***************************************************************************)
RECURSIVE AlphaOf(_)
AlphaOf(ss) == IF ss = <<>> THEN 0 ELSE Head(ss).alpha + AlphaOf(Tail(ss))

RECURSIVE TokOf(_)
TokOf(ss) == IF ss = <<>> THEN 0 ELSE Head(ss).tok + TokOf(Tail(ss))

\* The paragraph with index i (0-based) has a Candidate.
HasCandidate(i) == \E j \in 1..Len(cands) : cands[j].idx = i

\* The stripped text of the paragraph with index i, as loaded.
Stripped(i) == Strip(orig[i + 1])

\* C2: collect_candidates makes a Candidate for a paragraph exactly when the
\* paragraph's stripped text is not empty and has more than 40 alphabetic
\* words (41 words: yes, 40 words: no, whitespace only: never), and the
\* candidates' paragraph indices are strictly increasing.
C2_CandidateIffOver40Words ==
    /\ \A i \in 0..(Len(orig) - 1) :
          HasCandidate(i) <=>
             /\ orig[i + 1].sents # <<>>
             /\ AlphaOf(orig[i + 1].sents) >= 41
    /\ \A j \in 1..Len(cands) : cands[j].idx \in 0..(Len(orig) - 1)
    /\ \A j1, j2 \in 1..Len(cands) : j1 < j2 => cands[j1].idx < cands[j2].idx

\* A document with a paragraph of exactly 41 words, one of exactly 40 and a
\* whitespace-only one has been through collect_candidates.
C2_Witness ==
    /\ Len(orig) = 3 /\ Len(cands) = 1
    /\ \E i \in 0..2 : AlphaOf(orig[i + 1].sents) = 41 /\ HasCandidate(i)
    /\ \E i \in 0..2 : AlphaOf(orig[i + 1].sents) = 40 /\ ~HasCandidate(i)
    /\ \E i \in 0..2 : orig[i + 1] = SpacePara /\ ~HasCandidate(i)

\* The text without the "..." marker.
Unmarked(s) == IF s.k = "text" THEN [s EXCEPT !.marker = FALSE] ELSE s

\* C3: for a text of more than 1024 tokens, the text the Candidate holds has
\* at most 1024 tokens, the "..." marker aside, or is the original text.
C3_TruncatedWithinBudget ==
    \A j \in 1..Len(cands) :
       LET txt == Stripped(cands[j].idx)
       IN  TokenCount(txt) > 1024 =>
              \/ TokenCount(Unmarked(cands[j].truncated)) <= 1024
              \/ cands[j].truncated = txt

\* The largest number of leading sentences whose own token counts sum to at
\* most 1024.
LongestFit(ss) ==
    LET fits == {n \in 0..Len(ss) : TokOf(SubSeq(ss, 1, n)) <= 1024}
    IN  CHOOSE n \in fits : \A m \in fits : m <= n

CandTexts == [j \in 1..Len(cands) |-> cands[j].truncated]

\* The output the backend gives, unless blank, for candidate number j when
\* the candidates go to it four at a time.
OwnOutput(j) == Summary(CandTexts[j], ((j - 1) \div 4) + 1, ((j - 1) % 4) + 1, FALSE)

\* C4: batch_summarize hands the candidates to the backend in consecutive
\* slices of at most 4, in order, each candidate once and no call when there
\* is none; when it has returned every candidate's summary is the backend's
\* output at the candidate's own place in its batch, translated or not.
C4_BatchesPositional ==
    /\ \A c \in 1..Len(calls) :
          /\ calls[c].chunk =
                SubSeq(CandTexts, 4 * (c - 1) + 1, Min(4 * c, Len(cands)))
          /\ Len(calls[c].chunk) \in 1..4
    /\ pc \in {"merge", "main", "done"} =>
          /\ 4 * Len(calls) >= Len(cands)
          /\ 4 * Len(calls) < Len(cands) + 4
          /\ \A j \in 1..Len(cands) :
                cands[j].summary_zh \in {Empty, OwnOutput(j), Zh(OwnOutput(j))}

\* Nine candidates have gone through three calls and the last one has its
\* translated summary.
C4_Witness ==
    /\ pc = "merge"
    /\ Len(cands) = 9 /\ Len(calls) = 3
    /\ cands[9].summary_zh = Zh(OwnOutput(9))
    /\ cands[5].summary_zh = Zh(OwnOutput(5))

\* The paragraphs of d are those of the loaded document with runs added.
Additive(d) ==
    /\ Len(d) = Len(orig)
    /\ \A i \in 1..Len(d) :
          /\ d[i].text = orig[i]
          /\ orig[i].sents = <<>> => d[i].runs = <<>>

\* C5: process_docx keeps the number and the order of the paragraphs and the
\* text of each, adding runs after it; empty paragraphs are left as they are.
C5_MergeAdditive ==
    /\ Additive(doc)
    /\ \A f \in 1..Len(outputs) : outputs[f] # NoFile => Additive(outputs[f].paragraphs)

\* A saved document of three paragraphs, one of them with two runs added,
\* one of them empty.
C5_Witness ==
    /\ outputs # <<>> /\ outputs[1] # NoFile
    /\ Len(outputs[1].paragraphs) = 3
    /\ \E i \in 1..3 : Len(outputs[1].paragraphs[i].runs) = 2
    /\ \E i \in 1..3 : orig[i].sents = <<>>

\* C6: when the translation backend raises, translate_en2zh returns the text
\* it was given: the candidate's summary is the untranslated summary, the
\* paragraph's translation run holds the paragraph's own text, and the
\* program goes on (it stops only where SUMMARIZER raised).
C6_TranslationFailureKept ==
    /\ \A k \in 1..Len(faults) :
          LET f == faults[k]
          IN  f.kind = "raise" =>
                 IF f.site = "summary"
                 THEN /\ cands[f.n].summary_zh.k = "sum"
                      /\ cands[f.n].summary_zh.of = cands[f.n].truncated
                 ELSE /\ doc[f.n + 1].runs # <<>>
                      /\ doc[f.n + 1].runs[1] = TranslationRun(Stripped(f.n))
    /\ pc = "crashed" => console[Len(console)].msg = "traceback"
    /\ pc \in {"summarize", "merge"} => ENABLED NextDoc

\* The document has been saved although the translation of a summary and
\* that of a paragraph both failed.
C6_Witness ==
    /\ outputs # <<>> /\ outputs[1] # NoFile
    /\ \E k \in 1..Len(faults) : faults[k].kind = "raise" /\ faults[k].site = "summary"
    /\ \E k \in 1..Len(faults) : faults[k].kind = "raise" /\ faults[k].site = "para"

\* The labels of the runs added to a paragraph.
Labels(para) == [r \in 1..Len(para.runs) |-> para.runs[r].label]

\* The paragraph with index i has a Candidate whose summary is not empty.
HasSummary(i) ==
    \E j \in 1..Len(cands) : cands[j].idx = i /\ cands[j].summary_zh # Empty

\* The translation of the paragraph with index i came back empty.
TranslationEmpty(i) ==
    \E k \in 1..Len(faults) :
       faults[k].site = "para" /\ faults[k].n = i /\ faults[k].kind = "empty"

\* C10 as stated: in the saved document a paragraph has a summary run exactly
\* when it has a Candidate with a non-empty summary, and then a translation
\* run and a summary run, in that order; a non-empty paragraph of at most 40
\* words has a translation run and no summary run.
C10_RunsAsStated ==
    \A f \in 1..Len(outputs) : outputs[f] # NoFile =>
       \A i \in 0..(Len(outputs[f].paragraphs) - 1) :
          LET para == outputs[f].paragraphs[i + 1]
          IN  /\ (\E r \in 1..Len(para.runs) : para.runs[r].label = "sm") <=> HasSummary(i)
              /\ HasSummary(i) => Labels(para) = <<"tr", "sm">>
              /\ orig[i + 1].sents # <<>> /\ AlphaOf(orig[i + 1].sents) <= 40
                    => Labels(para) = <<"tr">>

\* C10, amended: in the saved document a paragraph has a summary run exactly
\* when it has a Candidate with a non-empty summary; the summary run is then
\* the last run, bold, and holds that summary; the translation run comes
\* before it and is there unless the paragraph's translation came back
\* empty; a non-empty paragraph of at most 40 words has no summary run, and
\* its translation run under the same condition.
C10_RunsAmended ==
    \A f \in 1..Len(outputs) : outputs[f] # NoFile =>
       \A i \in 0..(Len(outputs[f].paragraphs) - 1) :
          LET para == outputs[f].paragraphs[i + 1]
              tr == IF TranslationEmpty(i) THEN <<>> ELSE <<"tr">>
          IN  /\ (\E r \in 1..Len(para.runs) : para.runs[r].label = "sm") <=> HasSummary(i)
              /\ HasSummary(i) =>
                    /\ Labels(para) = tr \o <<"sm">>
                    /\ para.runs[Len(para.runs)].bold
                    /\ \E j \in 1..Len(cands) :
                          /\ cands[j].idx = i
                          /\ para.runs[Len(para.runs)].text = cands[j].summary_zh
              /\ orig[i + 1].sents # <<>> /\ AlphaOf(orig[i + 1].sents) <= 40
                    => Labels(para) = tr
              /\ \A r \in 1..Len(para.runs) :
                    para.runs[r].label = "tr" => ~para.runs[r].bold

\* A saved document with a paragraph that got both runs, a short one that
\* got its translation only, and one whose translation came back empty.
C10_Witness ==
    /\ outputs # <<>> /\ outputs[1] # NoFile
    /\ \E i \in 1..Len(orig) : Labels(outputs[1].paragraphs[i]) = <<"tr", "sm">>
    /\ \E i \in 1..Len(orig) :
          /\ Labels(outputs[1].paragraphs[i]) = <<"tr">>
          /\ AlphaOf(orig[i].sents) = 3
    /\ \E i \in 1..Len(orig) : TranslationEmpty(i - 1)

\* The number of lines on the console about file f with message msg.
Lines(f, msg) ==
    Cardinality({k \in 1..Len(console) : console[k].file = f /\ console[k].msg = msg})

\* A traceback for file f is on the console: SUMMARIZER raised there.
Raised(f) == Lines(f, "traceback") > 0

\* C1 as stated: an error of the summarization backend ends the processing
\* of the file it was raised for only: when the program has ended, every
\* valid file after it in the argument list has its output file.
C1_OtherFilesUnaffected ==
    pc \in {"done", "crashed"} =>
       \A f \in 1..Len(files) : Raised(f) =>
          \A g \in (f + 1)..Len(files) : files[g] = ValidArg => outputs[g] # NoFile

\* C1, amended: an error of the summarization backend is caught nowhere: it
\* ends the file it was raised for without an output file, and with it the
\* whole run, so that no file after it is examined; the valid files before it
\* have their output files.
C1_ErrorEndsRun ==
    \A f \in 1..Len(files) : Raised(f) =>
       /\ pc = "crashed" /\ fpos = f
       /\ console[Len(console)] = [msg |-> "traceback", file |-> f]
       /\ \A g \in f..Len(files) : outputs[g] = NoFile
       /\ \A g \in 1..(f - 1) : files[g] = ValidArg <=> outputs[g] # NoFile

\* The backend raised for the second of three valid files, after the first
\* was saved.
C1_Witness ==
    /\ Len(files) = 3 /\ \A g \in 1..3 : files[g] = ValidArg
    /\ Raised(2)
    /\ outputs[1] # NoFile

\* C8: a path that does not exist or does not end in .docx is reported once
\* and skipped: no output file, no backend call; the loop then stands at the
\* next argument, and a run that ends without an error has examined every
\* argument.
C8_InvalidInputSkipped ==
    /\ \A f \in 1..Len(files) : files[f] # ValidArg =>
          /\ outputs[f] = NoFile
          /\ \A c \in 1..Len(calls) : calls[c].file # f
          /\ \A k \in 1..Len(faults) : faults[k].file # f
          /\ Lines(f, "count") = 0 /\ Lines(f, "para") = 0 /\ Lines(f, "saved") = 0
          /\ Lines(f, "missing") = (IF f < fpos /\ ~files[f].exists THEN 1 ELSE 0)
          /\ Lines(f, "ignored") = (IF f < fpos /\ files[f].exists THEN 1 ELSE 0)
    /\ console # <<>> /\ console[Len(console)].msg \in {"missing", "ignored"} =>
          /\ fpos = console[Len(console)].file + 1
          /\ pc = "main" \/ (pc = "done" /\ fpos = Len(files) + 1)
    /\ pc = "done" =>
          \A f \in 1..Len(files) :
             Lines(f, "missing") + Lines(f, "ignored") + Lines(f, "saved") = 1

\* A run that skipped a .txt file, then saved a document, then skipped a
\* missing file, and ended.
C8_Witness ==
    /\ pc = "done" /\ Len(files) = 3
    /\ Lines(1, "ignored") = 1
    /\ outputs[2] # NoFile
    /\ Lines(3, "missing") = 1

\* The URLs at positions below upos that were reported, that got a document.
Reported(u) == Cardinality({k \in 1..Len(errs) : errs[k].url = u})
Saved(u) == Cardinality({k \in 1..Len(written) : written[k].url = u})

\* C7: a failure while a URL is fetched, parsed or saved ends that URL only:
\* one error line for it and no document, and the URLs are attempted once
\* each, in order, whatever happened to the earlier ones.
C7_UrlFailureIsolated ==
    /\ attempts = [k \in 1..Len(attempts) |-> k]
    /\ Len(attempts) = (IF fpc \in {"parse", "save"} THEN upos ELSE upos - 1)
    /\ fpc = "done" => Len(attempts) = Len(urls)
    /\ \A u \in 1..Len(urls) :
          /\ Reported(u) + Saved(u) = (IF u < upos THEN 1 ELSE 0)
    /\ \A k1, k2 \in 1..Len(errs) : k1 < k2 => errs[k1].url < errs[k2].url

\* Three URLs: the first failed when fetched, the second when saved, the
\* third got its document.
C7_Witness ==
    /\ fpc = "done" /\ Len(urls) = 3
    /\ errs = <<[url |-> 1, stage |-> "fetch"], [url |-> 2, stage |-> "save"]>>
    /\ Len(written) = 1 /\ written[1].url = 3

====
